---- MODULE Spec2Model ----
(***************************************************************************)
(* Model of process_pdfs_optimized.py: the OCR consensus pipeline that     *)
(* turns a PDF into a title and an outline of headings.                    *)
(*                                                                         *)
(* Numbers.  Coordinates are integer pixels.  A confidence is an integer   *)
(* number of hundredths (0.95 is 95).  A font size is an integer number of *)
(* tenths of a pixel (14.0 is 140).  An overlap ratio is the exact         *)
(* fraction <<intersection, union>>.  Text is a sequence of one-character  *)
(* strings.  A detection object's identity is its position in the list     *)
(* that holds it (two detections with equal fields are distinct objects).  *)
(***************************************************************************)
EXTENDS Integers, Sequences, FiniteSets, TLC

\* ------------------------------------------------------------------ bounds
MaxDet == 2
MaxItems == 3
MaxBody == 4
MaxPages == 2
MaxDocs == 2

\* ------------------------------------------------------- small list helpers
Max2(a, b) == IF a >= b THEN a ELSE b

Min2(a, b) == IF a <= b THEN a ELSE b

SeqsUpTo(S, n) == UNION {[1..k -> S] : k \in 0..n}

RECURSIVE Flatten(_)
Flatten(ss) == IF ss = <<>> THEN <<>> ELSE Head(ss) \o Flatten(Tail(ss))

\* ------------------------------------------------------------ BoundingBox
RECURSIVE LStrip(_)
LStrip(t) == IF t # <<>> /\ Head(t) = " " THEN LStrip(Tail(t)) ELSE t

RECURSIVE RStrip(_)
RStrip(t) ==
    IF t # <<>> /\ t[Len(t)] = " " THEN RStrip(SubSeq(t, 1, Len(t) - 1)) ELSE t

Strip(t) == RStrip(LStrip(t))

BoundingBox(x1, y1, x2, y2, text, confidence, font_size) ==
    [x1 |-> x1, y1 |-> y1, x2 |-> x2, y2 |-> y2,
     text |-> Strip(text),
     confidence |-> confidence,
     font_size |-> font_size,
     area |-> (x2 - x1) * (y2 - y1)]

\* ------------------------------------------------------ calculate_iou_fast
Zero == <<0, 1>>

calculate_iou_fast(box1, box2) ==
    IF box1.x2 <= box2.x1 \/ box2.x2 <= box1.x1
       \/ box1.y2 <= box2.y1 \/ box2.y2 <= box1.y1
    THEN Zero
    ELSE LET ix1 == Max2(box1.x1, box2.x1)
             iy1 == Max2(box1.y1, box2.y1)
             ix2 == Min2(box1.x2, box2.x2)
             iy2 == Min2(box1.y2, box2.y2)
             intersection == Max2(0, ix2 - ix1) * Max2(0, iy2 - iy1)
             union == box1.area + box2.area - intersection
         IN  IF intersection = 0 THEN Zero
             ELSE IF union > 0 THEN <<intersection, union>> ELSE Zero

\* r > t on fractions with positive denominators
RatioGt(r, t) == r[1] * t[2] > t[1] * r[2]

iou_threshold == <<1, 4>>

\* --------------------------------------------------- fast_ensemble_voting
\* all_boxes = [box for boxes in ocr_results.values() for box in boxes];
\* an ocr_results dict is the sequence of its <<name, boxes>> items in
\* insertion order.
DictValues(d) == [k \in 1..Len(d) |-> d[k][2]]

AllBoxes(ocr_results) == Flatten(DictValues(ocr_results))

\* calculate_iou_fast(box1, box2) > iou_threshold
OverThreshold(box1, box2) ==
    RatioGt(calculate_iou_fast(box1, box2), iou_threshold)

SkipNext(i) == i + 2

\* Where the inner loop starts: enumerate(all_boxes[i+1:], i+1)
FirstLater(i) == i + 1

\* The inner loop: for j, box2 in enumerate(all_boxes[i+1:], i+1).
\* st = [cluster |-> positions, seed first; used |-> set of positions]
RECURSIVE ScanLater(_, _, _, _)
ScanLater(all, i, j, st) ==
    IF j > Len(all) THEN st
    ELSE IF j \notin st.used /\ OverThreshold(all[i], all[j])
         THEN ScanLater(all, i, j + 1,
                        [cluster |-> Append(st.cluster, j),
                         used |-> st.used \cup {j}])
         ELSE ScanLater(all, i, j + 1, st)

\* max(cluster, key=lambda b: b.confidence): the running best changes only
\* on a strictly greater key.
RECURSIVE MaxFrom(_, _, _, _)
MaxFrom(all, cluster, k, best) ==
    IF k > Len(cluster) THEN best
    ELSE MaxFrom(all, cluster, k + 1,
                 IF all[cluster[k]].confidence > all[best].confidence
                 THEN cluster[k] ELSE best)

RECURSIVE MaxLastFrom(_, _, _, _)
MaxLastFrom(all, cluster, k, best) ==
    IF k > Len(cluster) THEN best
    ELSE MaxLastFrom(all, cluster, k + 1,
                     IF all[cluster[k]].confidence >= all[best].confidence
                     THEN cluster[k] ELSE best)

MaxConfidenceLast(all, cluster) == MaxLastFrom(all, cluster, 2, cluster[1])

MaxConfidence(all, cluster) == MaxFrom(all, cluster, 2, cluster[1])

\* The outer loop: for i, box1 in enumerate(all_boxes).  Each closed cluster
\* is recorded with the member final_boxes.append receives.
RECURSIVE VoteFrom(_, _, _, _)
VoteFrom(all, i, used, final) ==
    IF i > Len(all) THEN final
    ELSE IF i \in used THEN VoteFrom(all, i + 1, used, final)
         ELSE LET st == ScanLater(all, i, FirstLater(i),
                                  [cluster |-> <<i>>, used |-> used \cup {i}])
              IN  VoteFrom(all, i + 1, st.used,
                           Append(final, [cluster |-> st.cluster,
                                          best |-> MaxConfidence(all, st.cluster)]))

\* The run of fast_ensemble_voting on all_boxes: its clusters in the order
\* they were closed.
VoteTrace(all) == IF all = <<>> THEN <<>> ELSE VoteFrom(all, 1, {}, <<>>)

\* The positions in all_boxes of the objects fast_ensemble_voting returns.
VoteIndices(all) == LET tr == VoteTrace(all) IN [k \in 1..Len(tr) |-> tr[k].best]

fast_ensemble_voting(ocr_results) ==
    LET all == AllBoxes(ocr_results)
        idx == VoteIndices(all)
    IN  [k \in 1..Len(idx) |-> all[idx[k]]]

\* ------------------------------------------------ create_document_outline
\* all_boxes_with_page is a sequence of <<page_idx, box>>.
RECURSIVE InsertSize(_, _)
InsertSize(sorted, x) ==
    IF sorted = <<>> THEN <<x>>
    ELSE IF x < Head(sorted) THEN <<x>> \o sorted
         ELSE <<Head(sorted)>> \o InsertSize(Tail(sorted), x)

\* sorted() on numbers
RECURSIVE Sorted(_)
Sorted(sizes) ==
    IF sizes = <<>> THEN <<>>
    ELSE InsertSize(Sorted(SubSeq(sizes, 1, Len(sizes) - 1)), sizes[Len(sizes)])

\* [box for page_idx, box in all_boxes_with_page if page_idx == 0], as positions
RECURSIVE FirstPageFrom(_, _)
FirstPageFrom(all, i) ==
    IF i > Len(all) THEN <<>>
    ELSE (IF all[i][1] = 0 THEN <<i>> ELSE <<>>) \o FirstPageFrom(all, i + 1)

FirstPageBoxes(all) == FirstPageFrom(all, 1)

\* max(first_page_boxes, key=lambda b: b.font_size)
RECURSIVE MaxFontFrom(_, _, _, _)
MaxFontFrom(all, cand, k, best) ==
    IF k > Len(cand) THEN best
    ELSE MaxFontFrom(all, cand, k + 1,
                     IF all[cand[k]][2].font_size > all[best][2].font_size
                     THEN cand[k] ELSE best)

\* Position of title_box; 0 stands for None.
TitleIndex(all) ==
    LET first_page_boxes == FirstPageBoxes(all)
    IN  IF first_page_boxes = <<>> THEN 0
        ELSE MaxFontFrom(all, first_page_boxes, 2, first_page_boxes[1])

DocumentTitle(all) ==
    LET t == TitleIndex(all) IN IF t = 0 THEN <<>> ELSE all[t][2].text

\* [box.font_size for _, box in all_boxes_with_page if len(box.text) > 2]
RECURSIVE FontSizesFrom(_, _)
FontSizesFrom(all, i) ==
    IF i > Len(all) THEN <<>>
    ELSE (IF Len(all[i][2].text) > 2 THEN <<all[i][2].font_size>> ELSE <<>>)
         \o FontSizesFrom(all, i + 1)

AllFontSizes(all) == FontSizesFrom(all, 1)

LowerMiddle(n) == (n - 1) \div 2

\* len(sorted_sizes) // 2, a 0-based position
MiddleIndex(n) == n \div 2

MedianSize(all) ==
    LET sorted_sizes == Sorted(AllFontSizes(all))
    IN  sorted_sizes[MiddleIndex(Len(sorted_sizes)) + 1]

\* median_size * 1.6 and median_size * 1.3, over a common denominator
H1Factor == 16

H2Factor == 13

FactorDen == 10

\* key=lambda item: (item[0], item[1].y1); a <= b as Python compares tuples
KeyLe(a, b) == a[1] < b[1] \/ (a[1] = b[1] /\ a[2].y1 <= b[2].y1)

RECURSIVE InsertItem(_, _, _)
InsertItem(all, sorted, i) ==
    IF sorted = <<>> THEN <<i>>
    ELSE LET last == sorted[Len(sorted)]
         IN  IF KeyLe(all[last], all[i]) THEN Append(sorted, i)
             ELSE Append(InsertItem(all, SubSeq(sorted, 1, Len(sorted) - 1), i), last)

RECURSIVE SortFrom(_, _, _)
SortFrom(all, i, sorted) ==
    IF i > Len(all) THEN sorted
    ELSE SortFrom(all, i + 1, InsertItem(all, sorted, i))

Unsorted(all) == [i \in 1..Len(all) |-> i]

\* sorted(all_boxes_with_page, key=...): a stable sort, as positions
SortedBoxes(all) == SortFrom(all, 1, <<>>)

CountSpaces(text) == Cardinality({i \in 1..Len(text) : text[i] = " "})

EndsWithPeriod(text) == text # <<>> /\ text[Len(text)] = "."

MinTextLen == 3

MaxTextLen == 120

MaxSpaces == 10

\* The line-162 test that skips a detection
SkipsText(text) ==
    Len(text) < MinTextLen \/ Len(text) > MaxTextLen
    \/ EndsWithPeriod(text) \/ CountSpaces(text) > MaxSpaces

\* "H1" if font_size >= h1_threshold else "H2" if font_size >= h2_threshold else None
Level(font_size, median_size) ==
    IF FactorDen * font_size >= H1Factor * median_size THEN "H1"
    ELSE IF FactorDen * font_size >= H2Factor * median_size THEN "H2"
    ELSE "None"

\* The loop over sorted_boxes: the positions (in all_boxes_with_page) of the
\* detections for which an entry is appended, in order.
RECURSIVE EmitFrom(_, _, _, _, _)
EmitFrom(all, sorted_boxes, k, title, median_size) ==
    IF k > Len(sorted_boxes) THEN <<>>
    ELSE LET i == sorted_boxes[k]
             box == all[i][2]
             rest == EmitFrom(all, sorted_boxes, k + 1, title, median_size)
         IN  IF i = title THEN rest
             ELSE IF SkipsText(box.text) THEN rest
             ELSE IF Level(box.font_size, median_size) # "None" THEN <<i>> \o rest
             ELSE rest

OutlineIndices(all) ==
    IF all = <<>> THEN <<>>
    ELSE IF AllFontSizes(all) = <<>> THEN <<>>
    ELSE EmitFrom(all, SortedBoxes(all), 1, TitleIndex(all), MedianSize(all))

OutlineEntry(all, i, median_size) ==
    [level |-> Level(all[i][2].font_size, median_size),
     text |-> all[i][2].text,
     page |-> all[i][1]]

create_document_outline(all) ==
    IF all = <<>> THEN [title |-> <<>>, outline |-> <<>>]
    ELSE IF AllFontSizes(all) = <<>>
         THEN [title |-> DocumentTitle(all), outline |-> <<>>]
         ELSE LET idx == OutlineIndices(all)
                  median_size == MedianSize(all)
              IN  [title |-> DocumentTitle(all),
                   outline |-> [k \in 1..Len(idx) |->
                                   OutlineEntry(all, idx[k], median_size)]]

\* ------------------------------------------------------------------ texts
TXT_TITLE == <<"R", "e", "p", "o", "r", "t", " ", "T", "i", "t", "l", "e">>

TXT_CHAPTER == <<"C", "h", "a", "p", "t", "e", "r", " ", "O", "n", "e">>

TXT_SECTION == <<"S", "e", "c", "t", "i", "o", "n", " ", "1", ".", "1">>

TXT_SENTENCE == <<"t", "h", "i", "s", " ", "i", "s", " ", "a", " ", "l", "o", "n", "g", " ", "d", "e", "s", "c", "r", "i", "p", "t", "i", "v", "e", " ", "s", "e", "n", "t", "e", "n", "c", "e", ".">>

TXT_BODY == <<"b", "o", "d", "y", " ", "t", "e", "x", "t">>

TXT_SHORT == <<"a", "b">>

TXT_10_SPACES == <<"a", " ", "b", " ", "c", " ", "d", " ", "e", " ", "f", " ", "g", " ", "h", " ", "i", " ", "j", " ", "k">>

TXT_11_SPACES == <<"a", " ", "b", " ", "c", " ", "d", " ", "e", " ", "f", " ", "g", " ", "h", " ", "i", " ", "j", " ", "k", " ", "l">>

TXT_ALMOST == <<"A", "l", "m", "o", "s", "t">>

TXT_120 == [i \in 1..MaxTextLen |-> "a"]

TXT_121 == [i \in 1..(MaxTextLen + 1) |-> "a"]

TXT_HEAD_TOP == <<"A", "n", "n", "u", "a", "l", " ", "R", "e", "p", "o", "r", "t">>

TXT_HEAD_MID == <<"S", "c", "o", "p", "e">>

TXT_HEAD_LOW == <<"M", "e", "t", "h", "o", "d", "s">>

TXT_LINE == <<"s", "o", "m", "e", " ", "b", "o", "d", "y", " ", "t", "e", "x", "t">>

TXT_V1 == <<"I", "n", "t", "r", "o">>

TXT_V2 == <<"I", "n", "t", "r", "o", "d", "u", "c", "t", "i", "o", "n">>

TXT_V3 == <<"O", "v", "e", "r", "v", "i", "e", "w">>

TXT_V4 == <<"I", "n", "t", "r">>

TXT_V5 == <<"p", "a", "g", "e", " ", "1">>

TXT_V6 == <<"l", "n", "t", "r", "o">>

\* =================================================================== state
VARIABLES
    pc,               \* where main / process_single_pdf_fast stands
    pdf_left,         \* the files of pdf_files the loop of main has not reached
    doc,              \* the file being processed (what the externals yield for it)
    page_bytes_list,  \* the page images of the file
    loop_i,           \* page_idx of the running submission loop
    submitted,        \* the jobs handed to the executor, in submission order
    tasks,            \* the list "tasks": job ids
    futures,          \* the dict "futures": <<job id, <<page_idx, name>>>> items
    collected,        \* the futures as_completed has yielded
    results_by_page,  \* the defaultdict: <<page_idx, dict>> items, insertion order
    vote_i,           \* position in sorted(results_by_page.keys())
    all_consensus,    \* all_consensus_boxes_with_page_info
    output_data,      \* <<>> before create_document_outline ran, else <<result>>
    output_idx,       \* the positions in all_consensus of the outline's entries
    output_written,   \* whether the output file of the file in hand was written
    signal,           \* how the last call of process_single_pdf_fast ended
    exit_code,        \* -1 while the process runs, then its exit status
    raised_by,        \* what raised into the except clause of line 222
    log,              \* the error messages logged so far
    arrival,          \* whether the completions so far came in reverse of submission
    v_pc, ocr_in, vote_out, vote_trace,           \* a call of fast_ensemble_voting
    o_pc, outline_in, outline_out, outline_idx    \* a call of create_document_outline

pipeVars == <<pc, pdf_left, doc, page_bytes_list, loop_i, submitted,
              tasks, futures, collected, results_by_page, vote_i, all_consensus,
              output_data, output_idx, output_written, signal, exit_code, raised_by, log, arrival>>

voteVars == <<v_pc, ocr_in, vote_out, vote_trace>>

outlineVars == <<o_pc, outline_in, outline_out, outline_idx>>

vars == <<pipeVars, voteVars, outlineVars>>

\* ----------------------------------------------------------- detections
\* Detections of one page region, stacked vertically (x from 0 to 100).
\* V1, V2, V3 form a chain: V2 overlaps both V1 and V3 above the threshold,
\* V1 and V3 do not.  V4 overlaps V1 by 0.5.  V5 is disjoint from all.
\* V6 overlaps V1 by exactly 0.25.
V1 == BoundingBox(0, 0, 100, 10, TXT_V1, 90, 80)

V2 == BoundingBox(0, 5, 100, 15, TXT_V2, 95, 80)

V3 == BoundingBox(0, 8, 100, 22, TXT_V3, 30, 112)

V4 == BoundingBox(0, 0, 100, 5, TXT_V4, 95, 80)

V5 == BoundingBox(0, 200, 100, 210, TXT_V5, 30, 80)

V6 == BoundingBox(0, 6, 100, 16, TXT_V6, 50, 80)

\* What each engine may report for the region.
VotePool == [tesseract |-> {V1, V3, V5}, easyocr |-> {V2, V4, V5, V6}]

Engines == <<"tesseract", "easyocr">>

\* ------------------------------------------------ fast_ensemble_voting call
VoteIdle ==
    /\ v_pc = "idle"
    /\ ocr_in = <<>>
    /\ vote_out = <<>>
    /\ vote_trace = <<>>

OutlineIdle ==
    /\ o_pc = "idle"
    /\ outline_in = <<>>
    /\ outline_out = <<>>
    /\ outline_idx = <<>>

PipeIdle ==
    /\ pc = "idle"
    /\ pdf_left = 0
    /\ doc = [layout |-> <<>>, fail |-> {}]
    /\ page_bytes_list = <<>>
    /\ loop_i = 0
    /\ submitted = <<>>
    /\ tasks = <<>>
    /\ futures = <<>>
    /\ collected = {}
    /\ results_by_page = <<>>
    /\ vote_i = 0
    /\ all_consensus = <<>>
    /\ output_data = <<>>
    /\ output_idx = <<>>
    /\ output_written = FALSE
    /\ signal = "none"
    /\ exit_code = -1
    /\ raised_by = "none"
    /\ log = {}
    /\ arrival = [lifo |-> TRUE]

VoteInit ==
    /\ v_pc = "call"
    /\ \E t \in SeqsUpTo(VotePool.tesseract, MaxDet),
          e \in SeqsUpTo(VotePool.easyocr, MaxDet) :
          ocr_in \in {<< <<"tesseract", t>>, <<"easyocr", e>> >>,
                      << <<"easyocr", e>>, <<"tesseract", t>> >>}
    /\ vote_out = <<>>
    /\ vote_trace = <<>>
    /\ PipeIdle
    /\ OutlineIdle

VoteCall ==
    /\ v_pc = "call"
    /\ vote_out' = fast_ensemble_voting(ocr_in)
    /\ vote_trace' = VoteTrace(AllBoxes(ocr_in))
    /\ v_pc' = "ret"
    /\ UNCHANGED <<ocr_in, pipeVars, outlineVars>>

VoteNext == VoteCall

SpecVote == VoteInit /\ [][VoteNext]_vars

\* ------------------------------------------------- claims on the voting
Overlap(a, b) == calculate_iou_fast(a, b)

\* The greedy clustering, stated without the loops: a detection is a seed
\* when no earlier seed overlaps it above the threshold; otherwise it
\* belongs to the first seed that does.
RECURSIVE IsSeed(_, _)
IsSeed(all, j) ==
    \A i \in 1..(j - 1) :
        IsSeed(all, i) => ~RatioGt(Overlap(all[i], all[j]), iou_threshold)

SeedOf(all, j) ==
    IF IsSeed(all, j) THEN j
    ELSE LET S == {i \in 1..(j - 1) :
                      IsSeed(all, i) /\ RatioGt(Overlap(all[i], all[j]), iou_threshold)}
         IN  CHOOSE i \in S : \A h \in S : i <= h

Members(all, s) == {j \in 1..Len(all) : SeedOf(all, j) = s}

Representative(all, s) ==
    CHOOSE m \in Members(all, s) :
        \A n \in Members(all, s) :
            \/ all[m].confidence > all[n].confidence
            \/ (all[m].confidence = all[n].confidence /\ m <= n)

SeedsBefore(all, s) == Cardinality({i \in 1..(s - 1) : IsSeed(all, i)})

Ascending(q) == \A a, b \in 1..Len(q) : a < b => q[a] < q[b]

SeqRange(q) == {q[k] : k \in 1..Len(q)}

ExampleVote == << <<"tesseract", <<V1>>>>, <<"easyocr", <<V4, V5>>>> >>

\* C7 as claimed: no two distinct members of the consensus set overlap
\* above the consensus threshold 0.25.
C7_NoTwoMembersOverlap ==
    v_pc = "ret" =>
        \A k, l \in 1..Len(vote_out) :
            k # l => ~RatioGt(Overlap(vote_out[k], vote_out[l]), iou_threshold)

\* C7 as amended: no two distinct members of the consensus set that are
\* both the seed (first scanned detection) of their cluster overlap above
\* the consensus threshold 0.25.
C7_NoTwoSeedMembersOverlap ==
    v_pc = "ret" =>
        \A k, l \in 1..Len(vote_out) :
            (/\ k # l
             /\ vote_trace[k].best = vote_trace[k].cluster[1]
             /\ vote_trace[l].best = vote_trace[l].cluster[1])
            => ~RatioGt(Overlap(vote_out[k], vote_out[l]), iou_threshold)

\* Two members that are seeds and do overlap (below the threshold), next
\* to a cluster that absorbed a detection.
C7_Witness ==
    /\ v_pc = "ret"
    /\ \E k, l \in 1..Len(vote_out) :
          /\ k # l
          /\ vote_trace[k].best = vote_trace[k].cluster[1]
          /\ vote_trace[l].best = vote_trace[l].cluster[1]
          /\ Overlap(vote_out[k], vote_out[l]) # Zero
          /\ Len(vote_trace[k].cluster) > 1

\* C8: fast_ensemble_voting is the single-pass greedy clustering: the k-th
\* closed cluster is the k-th seed with every later detection that no
\* earlier seed took and that overlaps the seed above 0.25, in scan order;
\* every detection is in exactly one cluster; the output is, cluster by
\* cluster, the maximum-confidence member, the first one on a tie; and
\* D1, D2, D3 of the example give exactly [D2, D3].
C8_GreedyClustering ==
    v_pc = "ret" =>
        LET all == AllBoxes(ocr_in)
        IN  /\ Len(vote_trace) = Cardinality({j \in 1..Len(all) : IsSeed(all, j)})
            /\ Len(vote_out) = Len(vote_trace)
            /\ \A k \in 1..Len(vote_trace) :
                  LET c == vote_trace[k].cluster
                  IN  /\ IsSeed(all, c[1])
                      /\ SeedsBefore(all, c[1]) = k - 1
                      /\ Ascending(c)
                      /\ SeqRange(c) = Members(all, c[1])
                      /\ vote_trace[k].best = Representative(all, c[1])
                      /\ vote_out[k] = all[Representative(all, c[1])]
            /\ \A j \in 1..Len(all) :
                  Cardinality({k \in 1..Len(vote_trace) :
                                  j \in SeqRange(vote_trace[k].cluster)}) = 1
            /\ (ocr_in = ExampleVote => vote_out = <<V4, V5>>)

C8_Witness ==
    /\ v_pc = "ret"
    /\ ocr_in = ExampleVote
    /\ vote_out = <<V4, V5>>
    /\ vote_trace[1].cluster = <<1, 2>>

\* -------------------------------------------- create_document_outline call
\* <<page_idx, detection>> items; around a body size of 10.0 the H2
\* threshold is 13.0 and the H1 threshold 16.0.
ItTitle == <<0, BoundingBox(0, 0, 300, 30, TXT_TITLE, 90, 240)>>

ItChapter == <<1, BoundingBox(0, 10, 200, 30, TXT_CHAPTER, 90, 180)>>

ItSection == <<1, BoundingBox(0, 30, 200, 45, TXT_SECTION, 90, 140)>>

ItSentence == <<1, BoundingBox(0, 50, 400, 70, TXT_SENTENCE, 90, 180)>>

ItBody == <<1, BoundingBox(0, 70, 100, 80, TXT_BODY, 90, 100)>>

ItShort == <<1, BoundingBox(0, 5, 20, 25, TXT_SHORT, 90, 200)>>

ItLongest == <<1, BoundingBox(0, 90, 900, 110, TXT_120, 90, 160)>>

ItTooLong == <<2, BoundingBox(0, 0, 900, 20, TXT_121, 90, 180)>>

ItTenSpaces == <<1, BoundingBox(0, 20, 200, 35, TXT_10_SPACES, 90, 130)>>

ItElevenSpaces == <<2, BoundingBox(0, 10, 200, 30, TXT_11_SPACES, 90, 180)>>

ItChapterFront == <<0, BoundingBox(0, 10, 200, 30, TXT_CHAPTER, 90, 180)>>

ItBodyFront == <<0, BoundingBox(0, 40, 100, 50, TXT_BODY, 90, 100)>>

ItAlmost == <<2, BoundingBox(0, 0, 100, 15, TXT_ALMOST, 90, 129)>>

ItemPool == {ItTitle, ItChapter, ItSection, ItSentence, ItBody, ItShort,
             ItLongest, ItTooLong, ItTenSpaces, ItElevenSpaces,
             ItChapterFront, ItBodyFront, ItAlmost}

\* The input: up to MaxItems items of the pool in any order, alone or
\* followed by MaxBody lines of body text.
BodyLines(n) == [k \in 1..n |-> ItBody]

OutlineInit ==
    /\ o_pc = "call"
    /\ \E items \in SeqsUpTo(ItemPool, MaxItems) :
          outline_in \in {items, items \o BodyLines(MaxBody)}
    /\ outline_out = <<>>
    /\ outline_idx = <<>>
    /\ PipeIdle
    /\ VoteIdle

OutlineCall ==
    /\ o_pc = "call"
    /\ outline_out' = <<create_document_outline(outline_in)>>
    /\ outline_idx' = OutlineIndices(outline_in)
    /\ o_pc' = "ret"
    /\ UNCHANGED <<outline_in, pipeVars, voteVars>>

OutlineNext == OutlineCall

SpecOutline == OutlineInit /\ [][OutlineNext]_vars

\* ------------------------------------------------ claims on the outline
FontOf(all, i) == all[i][2].font_size

TextOf(all, i) == all[i][2].text

\* The maximum-font-size detection of page 0, the first one on a tie.
IsTitle(all, i) ==
    /\ all[i][1] = 0
    /\ \A j \in 1..Len(all) :
          all[j][1] = 0 =>
              \/ FontOf(all, j) < FontOf(all, i)
              \/ (FontOf(all, j) = FontOf(all, i) /\ j >= i)

Measured(all) == {i \in 1..Len(all) : Len(TextOf(all, i)) > 2}

\* The element at index floor(n/2) of the sorted sizes: at most floor(n/2)
\* sizes are below it and more than floor(n/2) are not above it.
Median(all) ==
    LET S == Measured(all)
        half == Cardinality(S) \div 2
    IN  CHOOSE m \in {FontOf(all, i) : i \in S} :
            /\ Cardinality({i \in S : FontOf(all, i) < m}) <= half
            /\ Cardinality({i \in S : FontOf(all, i) <= m}) > half

Qualifies(all, i) ==
    /\ ~IsTitle(all, i)
    /\ Len(TextOf(all, i)) >= 3
    /\ Len(TextOf(all, i)) <= 120
    /\ TextOf(all, i)[Len(TextOf(all, i))] # "."
    /\ Cardinality({c \in 1..Len(TextOf(all, i)) : TextOf(all, i)[c] = " "}) <= 10
    /\ 10 * FontOf(all, i) >= 13 * Median(all)

\* C10: an entry is emitted for a detection if and only if it is not the
\* title object, its text has 3 to 120 characters, does not end with a
\* period, has at most 10 spaces, and its font size is at least 1.3 times
\* the positional median; its level is H1 from 1.6 times the median on and
\* H2 below; with median 10, size 18 gives H1 and size 14 gives H2.
C10_EmittedIffQualifies ==
    o_pc = "ret" =>
        LET all == outline_in
            out == outline_out[1].outline
        IN  /\ SeqRange(outline_idx) = {i \in 1..Len(all) : Qualifies(all, i)}
            /\ Cardinality(SeqRange(outline_idx)) = Len(outline_idx)
            /\ Len(out) = Len(outline_idx)
            /\ \A k \in 1..Len(out) :
                  out[k] = [level |-> IF 10 * FontOf(all, outline_idx[k]) >= 16 * Median(all)
                                      THEN "H1" ELSE "H2",
                            text |-> TextOf(all, outline_idx[k]),
                            page |-> all[outline_idx[k]][1]]
            /\ (all = <<ItTitle, ItSection, ItChapter, ItBody, ItBody, ItBody, ItBody>> =>
                  out = <<[level |-> "H1", text |-> TXT_CHAPTER, page |-> 1],
                          [level |-> "H2", text |-> TXT_SECTION, page |-> 1]>>)
            /\ (all = <<ItTitle, ItSentence, ItBody, ItBody, ItBody, ItBody>> =>
                  out = <<>>)

\* The title object is skipped while its equal twin is classified, next to
\* a detection that is dropped for its size.
C10_Witness ==
    /\ o_pc = "ret"
    /\ outline_in = <<ItChapterFront, ItChapterFront, ItAlmost, ItBody, ItBody, ItBody, ItBody>>
    /\ outline_idx = <<2>>
    /\ outline_out[1] = [title |-> TXT_CHAPTER,
                         outline |-> <<[level |-> "H1", text |-> TXT_CHAPTER, page |-> 0]>>]

\* ================================================== the pipeline (main)
\* ------------------------------------------------------------ dict helpers
\* A dict is the sequence of its <<key, value>> items in insertion order.
DictKeys(d) == [k \in 1..Len(d) |-> d[k][1]]

DictHas(d, key) == \E k \in 1..Len(d) : d[k][1] = key

DictGet(d, key) == d[CHOOSE k \in 1..Len(d) : d[k][1] = key][2]

\* d[key] = value
DictSet(d, key, value) ==
    IF DictHas(d, key)
    THEN [k \in 1..Len(d) |-> IF d[k][1] = key THEN <<key, value>> ELSE d[k]]
    ELSE Append(d, <<key, value>>)

\* ------------------------------------------------- what the externals yield
\* A page of text: three headings and four body lines, which the two
\* engines split between them (neither reports from top to bottom).
HdTop == BoundingBox(0, 0, 300, 30, TXT_HEAD_TOP, 90, 240)

HdMid == BoundingBox(0, 35, 200, 50, TXT_HEAD_MID, 90, 120)

HdLow == BoundingBox(0, 55, 250, 75, TXT_HEAD_LOW, 80, 160)

Ln1 == BoundingBox(0, 80, 400, 90, TXT_LINE, 80, 80)

Ln2 == BoundingBox(0, 95, 400, 105, TXT_LINE, 80, 80)

Ln3 == BoundingBox(0, 110, 400, 120, TXT_LINE, 90, 80)

Ln4 == BoundingBox(0, 125, 400, 135, TXT_LINE, 90, 80)

\* What each engine detects on a page of each kind.
PageLayouts ==
    [chain  |-> [tesseract |-> <<V1, V3>>, easyocr |-> <<V2>>],
     headed |-> [tesseract |-> <<HdLow, Ln1, Ln2>>,
                 easyocr |-> <<HdMid, HdTop, Ln3, Ln4>>],
     blank  |-> [tesseract |-> <<>>, easyocr |-> <<>>]]

LayoutNames == {"chain", "headed", "blank"}

PageKeys(n) == {<<p, e>> : p \in 0..(n - 1), e \in {"tesseract", "easyocr"}}

\* A file: the kind of each of its pages (none when it cannot be opened or
\* has no page) and the (page, engine) pair, if any, on which the engine
\* raises.
DocPool ==
    {[layout |-> l, fail |-> F] :
        l \in SeqsUpTo(LayoutNames, MaxPages),
        F \in {{}} \cup {{key} : key \in PageKeys(MaxPages)}}

Docs == {d \in DocPool : d.fail \subseteq PageKeys(Len(d.layout))}

\* extract_pdf_pages_fast: one image per page, [] on any exception
extract_pdf_pages_fast(d) ==
    [p \in 1..Len(d.layout) |-> [page |-> p - 1, layout |-> d.layout[p]]]

run_tesseract_uncaught(d, image) ==
    IF <<image.page, "tesseract">> \in d.fail
    THEN [raised |-> TRUE, value |-> <<>>]
    ELSE [raised |-> FALSE, value |-> PageLayouts[image.layout].tesseract]

\* run_tesseract: the boxes, or [] from the except clause
run_tesseract(d, image) ==
    IF <<image.page, "tesseract">> \in d.fail
    THEN [raised |-> FALSE, value |-> <<>>]
    ELSE [raised |-> FALSE, value |-> PageLayouts[image.layout].tesseract]

\* run_easyocr: the boxes, or [] from the except clause
run_easyocr(d, image) ==
    IF <<image.page, "easyocr">> \in d.fail
    THEN [raised |-> FALSE, value |-> <<>>]
    ELSE [raised |-> FALSE, value |-> PageLayouts[image.layout].easyocr]

\* What future.result() gives for a job [fn, image]
JobOutcome(d, job) ==
    IF job.fn = "tesseract" THEN run_tesseract(d, job.image)
    ELSE run_easyocr(d, job.image)

FutureKeysOneName(page_idx) == << <<page_idx, "tesseract">>, <<page_idx, "tesseract">> >>

\* The keys of lines 199 and 200
FutureKeys(page_idx) == << <<page_idx, "tesseract">>, <<page_idx, "easyocr">> >>

\* results_by_page[page_idx][ocr_name] = boxes, on a defaultdict(dict)
SetResult(rbp, page_idx, ocr_name, boxes) ==
    LET inner == IF DictHas(rbp, page_idx) THEN DictGet(rbp, page_idx) ELSE <<>>
    IN  DictSet(rbp, page_idx, DictSet(inner, ocr_name, boxes))

\* [(page_idx, box) for box in consensus_boxes]
WithPage(page_idx, boxes) == [k \in 1..Len(boxes) |-> <<page_idx, boxes[k]>>]

\* ------------------------------------------------------------------ actions
PipeInit ==
    /\ pc = "main"
    /\ pdf_left \in 0..MaxDocs
    /\ doc = [layout |-> <<>>, fail |-> {}]
    /\ page_bytes_list = <<>>
    /\ loop_i = 0
    /\ submitted = <<>>
    /\ tasks = <<>>
    /\ futures = <<>>
    /\ collected = {}
    /\ results_by_page = <<>>
    /\ vote_i = 0
    /\ all_consensus = <<>>
    /\ output_data = <<>>
    /\ output_idx = <<>>
    /\ output_written = FALSE
    /\ signal = "none"
    /\ exit_code = -1
    /\ raised_by = "none"
    /\ log = {}
    /\ arrival = [lifo |-> TRUE]
    /\ VoteIdle
    /\ OutlineIdle

otherVars == <<voteVars, outlineVars>>

\* main, lines 235-237: no PDF file
NoFiles ==
    /\ pc = "main"
    /\ pdf_left = 0
    /\ pc' = "terminated"
    /\ exit_code' = 0
    /\ UNCHANGED <<pdf_left, doc, page_bytes_list, loop_i, submitted,
                   tasks, futures, collected, results_by_page, vote_i,
                   all_consensus, output_data, output_idx, output_written, signal, raised_by, log, arrival,
                   otherVars>>

\* main, lines 241-242: the next file is handed to process_single_pdf_fast
CallProcess ==
    /\ pc \in {"main", "loop"}
    /\ pdf_left > 0
    /\ \E d \in Docs : doc' = d
    /\ pdf_left' = pdf_left - 1
    /\ signal' = "none"
    /\ output_written' = FALSE
    /\ pc' = "extract"
    /\ UNCHANGED <<page_bytes_list, loop_i, submitted, tasks, futures,
                   collected, results_by_page, vote_i, all_consensus, output_data,
                   output_idx, exit_code, raised_by, log, arrival, otherVars>>

\* main, line 243: the loop is over
MainDone ==
    /\ pc = "loop"
    /\ pdf_left = 0
    /\ pc' = "terminated"
    /\ exit_code' = 0
    /\ UNCHANGED <<pdf_left, doc, page_bytes_list, loop_i, submitted,
                   tasks, futures, collected, results_by_page, vote_i,
                   all_consensus, output_data, output_idx, output_written, signal, raised_by, log, arrival,
                   otherVars>>

\* A variant that treats a file without pages as an exception.
ExtractRaising ==
    /\ pc = "extract"
    /\ page_bytes_list' = extract_pdf_pages_fast(doc)
    /\ IF page_bytes_list' = <<>>
       THEN /\ pc' = "except"
            /\ log' = log \cup {"no_pages"}
       ELSE /\ pc' = "submit_tasks"
            /\ log' = log
    /\ loop_i' = 0
    /\ UNCHANGED <<pdf_left, doc, submitted, tasks, futures, collected,
                   results_by_page, vote_i, all_consensus, output_data, output_idx,
                   output_written, signal, exit_code, raised_by, arrival, otherVars>>

\* lines 176-183: extract the pages; with none, log the error and return
Extract ==
    /\ pc = "extract"
    /\ page_bytes_list' = extract_pdf_pages_fast(doc)
    /\ IF page_bytes_list' = <<>>
       THEN /\ pc' = "returned"
            /\ signal' = "return"
            /\ log' = log \cup {"no_pages"}
       ELSE /\ pc' = "submit_tasks"
            /\ signal' = signal
            /\ log' = log
    /\ loop_i' = 0
    /\ UNCHANGED <<pdf_left, doc, submitted, tasks, futures, collected,
                   results_by_page, vote_i, all_consensus, output_data, output_idx,
                   output_written, exit_code, raised_by, arrival, otherVars>>

\* lines 188-190: one iteration of the loop that fills "tasks"
SubmitTasks ==
    /\ pc = "submit_tasks"
    /\ loop_i < Len(page_bytes_list)
    /\ LET page_bytes == page_bytes_list[loop_i + 1]
           n == Len(submitted)
       IN  /\ submitted' = submitted \o <<[fn |-> "tesseract", image |-> page_bytes],
                                          [fn |-> "easyocr", image |-> page_bytes]>>
           /\ tasks' = tasks \o <<n + 1, n + 2>>
    /\ loop_i' = loop_i + 1
    /\ UNCHANGED <<pc, pdf_left, doc, page_bytes_list, futures, collected,
                   results_by_page, vote_i, all_consensus, output_data, output_idx, output_written,
                   signal, exit_code, raised_by, log, arrival, otherVars>>

\* line 196: futures = {}
StartFutures ==
    /\ pc = "submit_tasks"
    /\ loop_i = Len(page_bytes_list)
    /\ futures' = <<>>
    /\ loop_i' = 0
    /\ pc' = "submit_futures"
    /\ UNCHANGED <<pdf_left, doc, page_bytes_list, submitted, tasks,
                   collected, results_by_page, vote_i, all_consensus, output_data, output_idx,
                   output_written, signal, exit_code, raised_by, log, arrival, otherVars>>

\* lines 197-200: one iteration of the loop that fills "futures"
SubmitFutures ==
    /\ pc = "submit_futures"
    /\ loop_i < Len(page_bytes_list)
    /\ LET page_idx == loop_i
           page_bytes == page_bytes_list[loop_i + 1]
           n == Len(submitted)
           keys == FutureKeys(page_idx)
       IN  /\ submitted' = submitted \o <<[fn |-> "tesseract", image |-> page_bytes],
                                          [fn |-> "easyocr", image |-> page_bytes]>>
           /\ futures' = DictSet(DictSet(futures, n + 1, keys[1]), n + 2, keys[2])
    /\ loop_i' = loop_i + 1
    /\ UNCHANGED <<pc, pdf_left, doc, page_bytes_list, tasks, collected,
                   results_by_page, vote_i, all_consensus, output_data, output_idx, output_written,
                   signal, exit_code, raised_by, log, arrival, otherVars>>

\* line 202: results_by_page = defaultdict(dict)
StartCollect ==
    /\ pc = "submit_futures"
    /\ loop_i = Len(page_bytes_list)
    /\ results_by_page' = <<>>
    /\ collected' = {}
    /\ arrival' = [lifo |-> TRUE]
    /\ pc' = "collect"
    /\ UNCHANGED <<pdf_left, doc, page_bytes_list, loop_i, submitted,
                   tasks, futures, vote_i, all_consensus, output_data, output_idx, output_written,
                   signal, exit_code, raised_by, log, otherVars>>

\* lines 203-206: as_completed yields a future of the dict, in any order
Collect ==
    /\ pc = "collect"
    /\ \E f \in SeqRange(DictKeys(futures)) \ collected :
          LET key == DictGet(futures, f)
              page_idx == key[1]
              ocr_name == key[2]
              outcome == JobOutcome(doc, submitted[f])
              k == Cardinality(collected) + 1
              order == DictKeys(futures)
          IN  /\ collected' = collected \cup {f}
              /\ arrival' = [lifo |-> arrival.lifo /\ f = order[Len(order) + 1 - k]]
              /\ IF outcome.raised
                 THEN /\ pc' = "except"
                      /\ raised_by' = "job"
                      /\ results_by_page' = results_by_page
                 ELSE /\ pc' = pc
                      /\ raised_by' = raised_by
                      /\ results_by_page' =
                            SetResult(results_by_page, page_idx, ocr_name, outcome.value)
    /\ UNCHANGED <<log, pdf_left, doc, page_bytes_list, loop_i, submitted,
                   tasks, futures, vote_i, all_consensus, output_data, output_idx, output_written,
                   signal, exit_code, otherVars>>

\* The as_completed loop and the with block end once every job is done
EndCollect ==
    /\ pc = "collect"
    /\ collected = SeqRange(DictKeys(futures))
    /\ vote_i' = 1
    /\ pc' = "vote"
    /\ UNCHANGED <<pdf_left, doc, page_bytes_list, loop_i, submitted,
                   tasks, futures, collected, results_by_page, all_consensus,
                   output_data, output_idx, output_written, signal, exit_code, raised_by, log, arrival,
                   otherVars>>

\* lines 208-211: one iteration over sorted(results_by_page.keys())
VotePage ==
    /\ pc = "vote"
    /\ LET keys == Sorted(DictKeys(results_by_page))
       IN  /\ vote_i <= Len(keys)
           /\ LET page_idx == keys[vote_i]
                  consensus_boxes ==
                      fast_ensemble_voting(DictGet(results_by_page, page_idx))
              IN  all_consensus' = all_consensus \o WithPage(page_idx, consensus_boxes)
    /\ vote_i' = vote_i + 1
    /\ UNCHANGED <<pc, pdf_left, doc, page_bytes_list, loop_i, submitted,
                   tasks, futures, collected, results_by_page, output_data, output_idx, output_written,
                   signal, exit_code, raised_by, log, arrival, otherVars>>

\* line 213
BuildOutline ==
    /\ pc = "vote"
    /\ vote_i > Len(results_by_page)
    /\ output_data' = <<create_document_outline(all_consensus)>>
    /\ output_idx' = OutlineIndices(all_consensus)
    /\ pc' = "write"
    /\ UNCHANGED <<pdf_left, doc, page_bytes_list, loop_i, submitted,
                   tasks, futures, collected, results_by_page, vote_i,
                   all_consensus, output_written, signal, exit_code, raised_by, log, arrival,
                   otherVars>>

\* lines 214-220: the output file is written, or opening or writing it raises
WriteOutput ==
    /\ pc = "write"
    /\ \E written \in BOOLEAN :
          IF written
          THEN /\ output_written' = TRUE
               /\ pc' = "returned"
               /\ signal' = "return"
               /\ raised_by' = raised_by
          ELSE /\ output_written' = output_written
               /\ pc' = "except"
               /\ signal' = signal
               /\ raised_by' = "write"
    /\ UNCHANGED <<log, pdf_left, doc, page_bytes_list, loop_i, submitted,
                   tasks, futures, collected, results_by_page, vote_i,
                   all_consensus, output_data, output_idx, exit_code, arrival, otherVars>>

\* lines 222-225: log the error and sys.exit(1); SystemExit leaves main
HandleException ==
    /\ pc = "except"
    /\ log' = log \cup {"failed"}
    /\ signal' = "SystemExit"
    /\ exit_code' = 1
    /\ pc' = "terminated"
    /\ UNCHANGED <<pdf_left, doc, page_bytes_list, loop_i, submitted,
                   tasks, futures, collected, results_by_page, vote_i,
                   all_consensus, output_data, output_idx, output_written,
                   raised_by, arrival, otherVars>>

\* process_single_pdf_fast has returned: its locals are gone
ReturnToMain ==
    /\ pc = "returned"
    /\ pc' = "loop"
    /\ doc' = [layout |-> <<>>, fail |-> {}]
    /\ page_bytes_list' = <<>>
    /\ loop_i' = 0
    /\ submitted' = <<>>
    /\ tasks' = <<>>
    /\ futures' = <<>>
    /\ collected' = {}
    /\ results_by_page' = <<>>
    /\ vote_i' = 0
    /\ all_consensus' = <<>>
    /\ output_data' = <<>>
    /\ output_idx' = <<>>
    /\ arrival' = [lifo |-> TRUE]
    /\ UNCHANGED <<pdf_left, output_written, signal, exit_code, raised_by, log, otherVars>>

Init == PipeInit

Next ==
    \/ NoFiles
    \/ CallProcess
    \/ MainDone
    \/ Extract
    \/ SubmitTasks
    \/ StartFutures
    \/ SubmitFutures
    \/ StartCollect
    \/ Collect
    \/ EndCollect
    \/ VotePage
    \/ BuildOutline
    \/ WriteOutput
    \/ HandleException
    \/ ReturnToMain

Spec == Init /\ [][Next]_vars

\* --------------------------------------------------- claims on the pipeline
\* The detection list the engine's job returns for a (page, engine) pair.
Returned(d, p, e) ==
    IF <<p, e>> \in d.fail THEN <<>> ELSE PageLayouts[d.layout[p + 1]][e]

\* The pipeline's result when every page's engines report in the order of
\* submission (tesseract, then easyocr).
RECURSIVE ConsensusInSubmissionOrder(_, _)
ConsensusInSubmissionOrder(d, p) ==
    IF p >= Len(d.layout) THEN <<>>
    ELSE WithPage(p, fast_ensemble_voting(<< <<"tesseract", Returned(d, p, "tesseract")>>,
                                            <<"easyocr", Returned(d, p, "easyocr")>> >>))
         \o ConsensusInSubmissionOrder(d, p + 1)

\* C1 as claimed: for a fixed document and fixed detection lists the
\* consensus sets and the OutlineResult are the same for every order in
\* which the jobs complete, so they equal those of the run in which the jobs
\* complete in submission order.
C1_SameResultForEveryOrder ==
    pc = "write" =>
        /\ all_consensus = ConsensusInSubmissionOrder(doc, 0)
        /\ output_data = <<create_document_outline(ConsensusInSubmissionOrder(doc, 0))>>

\* C2 as claimed: when submission is over the number of jobs handed to the
\* executor is pages x engines and no (page, engine) pair was submitted twice.
C2_OneJobPerPair ==
    pc = "collect" =>
        /\ Len(submitted) = Len(page_bytes_list) * Len(Engines)
        /\ \A a, b \in 1..Len(submitted) :
              (submitted[a].fn = submitted[b].fn
               /\ submitted[a].image.page = submitted[b].image.page) => a = b

\* The futures of the dict that run engine e on the image of page p.
TaggedJobs(p, e) ==
    {f \in SeqRange(DictKeys(futures)) :
        submitted[f] = [fn |-> e, image |-> page_bytes_list[p + 1]]}

\* C3: once every job has completed, in whatever order, results_by_page
\* holds for each page p and engine e exactly the list returned by the one
\* job submitted under the key (p, e), and nothing else.
C3_RoutedByKey ==
    pc = "vote" =>
        /\ Len(results_by_page) = Len(page_bytes_list)
        /\ \A p \in 0..(Len(page_bytes_list) - 1) :
              /\ DictHas(results_by_page, p)
              /\ Len(DictGet(results_by_page, p)) = Len(Engines)
              /\ \A e \in SeqRange(Engines) :
                    /\ Cardinality(TaggedJobs(p, e)) = 1
                    /\ DictHas(DictGet(results_by_page, p), e)
                    /\ \A f \in TaggedJobs(p, e) :
                          /\ DictGet(futures, f) = <<p, e>>
                          /\ DictGet(DictGet(results_by_page, p), e)
                               = JobOutcome(doc, submitted[f]).value

\* Two pages with different detections, collected in the reverse of the
\* submission order.
C3_Witness ==
    /\ pc = "vote"
    /\ arrival.lifo
    /\ doc = [layout |-> <<"chain", "headed">>, fail |-> {}]
    /\ DictKeys(results_by_page) = <<1, 0>>
    /\ DictGet(DictGet(results_by_page, 0), "easyocr") = <<V2>>

\* C4: a job whose engine raises yields an empty list under its key, the
\* other jobs still deliver their detections, the exception never reaches
\* the except clause of the document, and the outline is built.
C4_JobFailureAbsorbed ==
    /\ raised_by # "job"
    /\ (pc = "except" => raised_by = "write" /\ output_data # <<>>)
    /\ (pc \in {"vote", "write"} =>
          \A p \in 0..(Len(doc.layout) - 1) : \A e \in SeqRange(Engines) :
              /\ DictHas(results_by_page, p)
              /\ DictHas(DictGet(results_by_page, p), e)
              /\ DictGet(DictGet(results_by_page, p), e)
                   = IF <<p, e>> \in doc.fail THEN <<>>
                     ELSE PageLayouts[doc.layout[p + 1]][e])
    /\ (pc = "write" =>
          output_data = <<create_document_outline(all_consensus)>>)

\* easyocr raised on the second page; tesseract's detections of that page
\* made the outline.
C4_Witness ==
    /\ pc = "write"
    /\ doc = [layout |-> <<"blank", "headed">>, fail |-> {<<1, "easyocr">>}]
    /\ DictGet(DictGet(results_by_page, 1), "easyocr") = <<>>
    /\ DictGet(DictGet(results_by_page, 1), "tesseract") = <<HdLow, Ln1, Ln2>>
    /\ output_data = <<[title |-> <<>>,
                        outline |-> <<[level |-> "H1", text |-> TXT_HEAD_LOW, page |-> 1]>>]>>

\* C5 as claimed: a document without pages gets no output file and its
\* failure reaches the caller as something other than the normal return.
C5_NoPagesIsDistinctError ==
    (pc = "returned" /\ page_bytes_list = <<>>) =>
        /\ ~output_written
        /\ signal # "return"

\* C6 as claimed: the batch never stops before every document was processed.
C6_BatchContinues ==
    pc = "terminated" => pdf_left = 0

\* C6 as amended: a document without pages does not stop the batch (the
\* error is logged and the remaining documents are processed); the run ends
\* early only through an exception raised while a document with pages is
\* processed, and then with exit status 1.
C6_StopsOnlyOnException ==
    /\ (pc = "returned" => exit_code = -1 /\ "failed" \notin log)
    /\ (pc = "terminated" =>
          IF "failed" \in log
          THEN exit_code = 1 /\ signal = "SystemExit" /\ page_bytes_list # <<>>
          ELSE exit_code = 0 /\ pdf_left = 0)

\* A document is processed to its outline after an earlier document of the
\* batch had no pages.
C6_Witness ==
    /\ "no_pages" \in log
    /\ pc = "write"
    /\ page_bytes_list # <<>>
    /\ exit_code = -1

\* C9: the outline's entries are in (page, y1) order whatever the order in
\* which the jobs completed and the consensus stage listed the detections.
C9_OutlineOrdered ==
    pc = "write" =>
        LET out == output_data[1].outline
        IN  /\ Len(out) = Len(output_idx)
            /\ \A k \in 1..Len(out) :
                  /\ out[k].page = all_consensus[output_idx[k]][1]
                  /\ out[k].text = all_consensus[output_idx[k]][2].text
            /\ \A k, l \in 1..Len(out) :
                  k < l =>
                      \/ out[k].page < out[l].page
                      \/ /\ out[k].page = out[l].page
                         /\ all_consensus[output_idx[k]][2].y1
                              <= all_consensus[output_idx[l]][2].y1

\* Jobs completed in the reverse of submission order, and an entry that the consensus
\* stage listed after a later entry of the same page.
C9_Witness ==
    /\ pc = "write"
    /\ arrival.lifo
    /\ \E k \in 1..(Len(output_idx) - 1) :
          /\ output_idx[k] > output_idx[k + 1]
          /\ output_data[1].outline[k].page = output_data[1].outline[k + 1].page
    /\ \E k \in 1..(Len(output_idx) - 1) :
          output_data[1].outline[k].page < output_data[1].outline[k + 1].page

====
